---------------------------- MODULE Spec2Model ----------------------------
(***************************************************************************)
(* Model of optimize_post_images.py: the post image optimiser.             *)
(*                                                                         *)
(* File names and paths are sequences of one-character strings, so that    *)
(* stem, suffix and substring tests are computed as pathlib and str do.    *)
(* Python floats are IEEE-754 doubles: a float is a sign, a 53-bit         *)
(* mantissa (most significant bit first) and the exponent of its last bit; *)
(* every arithmetic step rounds to nearest, ties to even, as the hardware  *)
(* does.                                                                   *)
(***************************************************************************)
EXTENDS Integers, Sequences, FiniteSets, TLC

(***************************************************************************)
(* Bounds of the model.                                                    *)
(***************************************************************************)
MaxDim == 6
MaxSize == 10
MaxRefs == 2
MaxAttachments == 1
MaxListing == 2

(***************************************************************************)
(* IEEE-754 double arithmetic.                                             *)
(***************************************************************************)
MantissaBits == 53

Zeros(n) == [i \in 1..n |-> 0]

RECURSIVE NatBits(_)
NatBits(n) == IF n = 0 THEN <<>> ELSE Append(NatBits(n \div 2), n % 2)

RECURSIVE BitsVal(_)
BitsVal(bits) ==
    IF bits = <<>> THEN 0
    ELSE 2 * BitsVal(SubSeq(bits, 1, Len(bits) - 1)) + bits[Len(bits)]

\* the bits without their leading zeros
StripZeros(bits) ==
    IF \E i \in 1..Len(bits) : bits[i] = 1
    THEN SubSeq(bits, CHOOSE i \in 1..Len(bits) :
                        bits[i] = 1 /\ \A j \in 1..(i - 1) : bits[j] = 0,
                Len(bits))
    ELSE <<>>

AnyOne(bits) == \E i \in 1..Len(bits) : bits[i] = 1

\* the k-bit representation of q < 2^k
FixedBits(q, k) == [i \in 1..k |-> (q \div 2^(k - i)) % 2]

FZero == [sign |-> 1, m |-> <<>>, e |-> 0]

\* bits + 1 for a bit sequence that is not all ones: the last 0 becomes 1 and
\* the ones after it become 0
IncrBits(bits) ==
    LET z == CHOOSE i \in 1..Len(bits) :
                bits[i] = 0 /\ \A j \in (i + 1)..Len(bits) : bits[j] = 1
    IN  [i \in 1..Len(bits) |-> IF i < z THEN bits[i] ELSE IF i = z THEN 1 ELSE 0]

\* The double nearest to sign * (bits + tail) * 2^e, where 0 <= tail < 1 and
\* sticky says tail # 0: round to nearest, ties to even.
FRound(sign, rawbits, sticky, e) ==
    LET bits == StripZeros(rawbits)
        n == Len(bits)
    IN  IF n = 0 THEN FZero
        ELSE IF n <= MantissaBits
        THEN [sign |-> sign, m |-> bits \o Zeros(MantissaBits - n),
              e |-> e - (MantissaBits - n)]
        ELSE LET keep == SubSeq(bits, 1, MantissaBits)
                 rest == SubSeq(bits, MantissaBits + 1, n)
                 st == sticky \/ AnyOne(Tail(rest))
                 up == rest[1] = 1 /\ (st \/ keep[MantissaBits] = 1)
                 e2 == e + Len(rest)
             IN  IF ~up THEN [sign |-> sign, m |-> keep, e |-> e2]
                 ELSE IF ~AnyOne([i \in 1..MantissaBits |-> 1 - keep[i]])
                 THEN [sign |-> sign, m |-> <<1>> \o Zeros(MantissaBits - 1),
                       e |-> e2 + 1]
                 ELSE [sign |-> sign, m |-> IncrBits(keep), e |-> e2]

\* Long division r / b (r < b), eight quotient bits after the binary point at
\* a time, until MantissaBits + 2 significant bits are known or the remainder
\* is zero.
RECURSIVE DivBits(_, _, _, _)
DivBits(r, b, acc, shift) ==
    IF r = 0 \/ Len(StripZeros(acc)) >= MantissaBits + 2
    THEN [bits |-> acc, rem |-> r, shift |-> shift]
    ELSE DivBits((r * 256) % b, b, acc \o FixedBits((r * 256) \div b, 8),
                 shift + 8)

\* a / b for integers a >= 0, b > 0 (Python's true division)
FDiv(a, b) ==
    LET d == DivBits(a % b, b, NatBits(a \div b), 0)
    IN  FRound(1, d.bits, d.rem # 0, 0 - d.shift)

\* the bits of h * value(m), by a carry from the last bits up, up to eight
\* bits of m at a time; i bits of m are still to do
RECURSIVE MulBits(_, _, _, _, _)
MulBits(m, i, carry, h, acc) ==
    IF i = 0 THEN NatBits(carry) \o acc
    ELSE LET k == IF i < 8 THEN i ELSE 8
             t == carry + h * BitsVal(SubSeq(m, i - k + 1, i))
         IN  MulBits(m, i - k, t \div 2^k, h, FixedBits(t % 2^k, k) \o acc)

\* h * x for an integer h >= 0 (int * float: the int converts exactly)
FMulInt(h, x) ==
    FRound(x.sign, MulBits(x.m, Len(x.m), 0, h, <<>>), FALSE, x.e)

\* x < y for bit sequences of equal length
BitsLess(x, y) ==
    \E i \in 1..Len(x) : x[i] < y[i] /\ \A j \in 1..(i - 1) : x[j] = y[j]

\* x - y for bit sequences of equal length n with x >= y: bit i borrows when
\* the bits below it of x are less than those of y
SubBits(x, y, n) ==
    [i \in 1..n |->
        LET borrow == IF BitsLess(SubSeq(x, i + 1, n), SubSeq(y, i + 1, n))
                      THEN 1 ELSE 0
        IN  (x[i] - y[i] - borrow + 2) % 2]

\* 1 - q for a float q >= 0 below 2^52
FSubFromOne(q) ==
    IF q.m = <<>> THEN FRound(1, <<1>>, FALSE, 0)
    ELSE LET one == <<1>> \o Zeros(0 - q.e)
             n == IF Len(one) > Len(q.m) THEN Len(one) ELSE Len(q.m)
             a == Zeros(n - Len(one)) \o one
             b == Zeros(n - Len(q.m)) \o q.m
         IN  IF BitsLess(a, b)
             THEN FRound(-1, SubBits(b, a, n), FALSE, q.e)
             ELSE FRound(1, SubBits(a, b, n), FALSE, q.e)

\* int(x): truncation toward zero, for |x| < 2^31
FTrunc(x) ==
    IF x.m = <<>> \/ MantissaBits + x.e <= 0 THEN 0
    ELSE x.sign * BitsVal(SubSeq(x.m, 1, MantissaBits + x.e))

\* round(x): to the nearest integer, ties to even, for |x| < 2^31
FRoundInt(x) ==
    IF x.m = <<>> \/ MantissaBits + x.e < 0 THEN 0
    ELSE LET k == MantissaBits + x.e
             whole == BitsVal(SubSeq(x.m, 1, k))
             frac == SubSeq(x.m, k + 1, MantissaBits)
             up == frac # <<>> /\ frac[1] = 1
                   /\ (AnyOne(Tail(frac)) \/ whole % 2 = 1)
         IN  x.sign * (IF up THEN whole + 1 ELSE whole)

(***************************************************************************)
(* ImageOptimizer.convert_to_webp: the size handed to img.resize, or the   *)
(* size of the image when it is not resized.                               *)
(***************************************************************************)
Max(a, b) == IF a > b THEN a ELSE b

\* variant: the smaller dimension rounded to the nearest integer
ResizeTargetRounded(w, h, max_width) ==
    IF Max(w, h) > max_width
    THEN IF w > h
         THEN <<max_width, FRoundInt(FMulInt(h, FDiv(max_width, w)))>>
         ELSE <<FRoundInt(FMulInt(w, FDiv(max_width, h))), max_width>>
    ELSE <<w, h>>

ResizeTarget(w, h, max_width) ==
    IF Max(w, h) > max_width
    THEN IF w > h
         THEN <<max_width, FTrunc(FMulInt(h, FDiv(max_width, w)))>>
         ELSE <<FTrunc(FMulInt(w, FDiv(max_width, h))), max_width>>
    ELSE <<w, h>>

(***************************************************************************)
(* ImageOptimizer.process_image: the compression percentage.               *)
(***************************************************************************)
\* variant: the percentage rounded to the nearest integer
CompressionRounded(orig_size, new_size) ==
    IF orig_size > 0
    THEN FRoundInt(FMulInt(100, FSubFromOne(FDiv(new_size, orig_size))))
    ELSE 0

Compression(orig_size, new_size) ==
    IF orig_size > 0
    THEN FTrunc(FMulInt(100, FSubFromOne(FDiv(new_size, orig_size))))
    ELSE 0

(***************************************************************************)
(* Strings, as str and pathlib.PurePath compute them.                      *)
(***************************************************************************)
UpperChars ==
    <<"A", "B", "C", "D", "E", "F", "G", "H", "I", "J", "K", "L", "M",
      "N", "O", "P", "Q", "R", "S", "T", "U", "V", "W", "X", "Y", "Z">>
LowerChars ==
    <<"a", "b", "c", "d", "e", "f", "g", "h", "i", "j", "k", "l", "m",
      "n", "o", "p", "q", "r", "s", "t", "u", "v", "w", "x", "y", "z">>

LowerChar(c) ==
    IF \E i \in 1..Len(UpperChars) : UpperChars[i] = c
    THEN LowerChars[CHOOSE i \in 1..Len(UpperChars) : UpperChars[i] = c]
    ELSE c

\* str.lower
Lower(s) == [i \in 1..Len(s) |-> LowerChar(s[i])]

\* str.startswith
StartsWith(s, p) == Len(p) <= Len(s) /\ SubSeq(s, 1, Len(p)) = p

\* sub in s
Contains(sub, s) ==
    \E i \in 1..(Len(s) - Len(sub) + 1) : SubSeq(s, i, i + Len(sub) - 1) = sub

\* str.rfind, 1-based; 0 when c does not occur
RFind(s, c) ==
    IF \E i \in 1..Len(s) : s[i] = c
    THEN CHOOSE i \in 1..Len(s) : s[i] = c /\ \A j \in (i + 1)..Len(s) : s[j] # c
    ELSE 0

\* PurePath(path).name: the last component of a path
RECURSIVE PathName(_)
PathName(path) ==
    IF path # <<>> /\ path[Len(path)] = "/"
    THEN PathName(SubSeq(path, 1, Len(path) - 1))
    ELSE SubSeq(path, RFind(path, "/") + 1, Len(path))

\* PurePath(name).suffix
Suffix(name) ==
    LET i == RFind(name, ".")
    IN  IF 1 < i /\ i < Len(name) THEN SubSeq(name, i, Len(name)) ELSE <<>>

\* PurePath(name).stem
Stem(name) ==
    LET i == RFind(name, ".")
    IN  IF 1 < i /\ i < Len(name) THEN SubSeq(name, 1, i - 1) ELSE name

WebpExt == <<".", "w", "e", "b", "p">>
ImgPrefix == <<"i", "m", "g", "_">>
AttachmentsPrefix == <<"A", "t", "t", "a", "c", "h", "m", "e", "n", "t", "s", "/">>
DigitChars == <<"0", "1", "2", "3", "4", "5", "6", "7", "8", "9">>

\* str(n) for n >= 0
RECURSIVE Decimal(_)
Decimal(n) ==
    IF n < 10 THEN <<DigitChars[n + 1]>>
    ELSE Append(Decimal(n \div 10), DigitChars[(n % 10) + 1])

\* variant: f"{idx}", without the padding
Format02dUnpadded(idx) == Decimal(idx)

\* f"{idx:02d}"
Format02d(idx) ==
    LET d == Decimal(idx) IN IF Len(d) < 2 THEN <<"0">> \o d ELSE d

(***************************************************************************)
(* get_file_type                                                           *)
(***************************************************************************)
NoType == "none"

get_file_type(filename) ==
    LET ext == Lower(Suffix(PathName(filename)))
    IN  IF ext \in {<<".", "j", "p", "g">>, <<".", "j", "p", "e", "g">>} THEN "jpeg"
        ELSE IF ext = <<".", "h", "e", "i", "c">> THEN "heic"
        ELSE IF ext \in {<<".", "t", "i", "f">>, <<".", "t", "i", "f", "f">>} THEN "tiff"
        ELSE IF ext = <<".", "p", "n", "g">> THEN "png"
        ELSE IF ext = <<".", "w", "e", "b", "p">> THEN "webp"
        ELSE IF ext \in {<<".", "m", "o", "v">>, <<".", "m", "p", "4">>,
                         <<".", "a", "v", "i">>} THEN "video"
        ELSE NoType

(***************************************************************************)
(* find_file_by_basename.  A directory listing is the sequence of entries  *)
(* in the order iterdir yields them; an entry is [name, is_file].          *)
(***************************************************************************)
NoFile == [name |-> <<>>, is_file |-> FALSE, found |-> FALSE]

Found(entry) == [name |-> entry.name, is_file |-> entry.is_file, found |-> TRUE]

\* the first entry of the listing, in iteration order, among those at hits
FirstMatch(listing, hits) ==
    IF hits # {}
    THEN Found(listing[CHOOSE i \in hits : \A j \in hits : i <= j])
    ELSE NoFile

ExactMatch(listing, filename) ==
    FirstMatch(listing, { i \in 1..Len(listing) : listing[i].name = filename })

StemMatch(listing, filename) ==
    LET basename == Stem(filename)
    IN  FirstMatch(listing,
                   { i \in 1..Len(listing) :
                       listing[i].is_file /\ Stem(listing[i].name) = basename })

SubstringMatch(listing, filename) ==
    LET basename == Stem(filename)
    IN  FirstMatch(listing,
                   { i \in 1..Len(listing) :
                       listing[i].is_file /\ Contains(basename, listing[i].name) })

\* variant: the substring tier tried before the stem tier
find_file_by_basename_substring_first(listing, filename) ==
    IF ExactMatch(listing, filename).found THEN ExactMatch(listing, filename)
    ELSE IF SubstringMatch(listing, filename).found
    THEN SubstringMatch(listing, filename)
    ELSE StemMatch(listing, filename)

find_file_by_basename(listing, filename) ==
    IF ExactMatch(listing, filename).found THEN ExactMatch(listing, filename)
    ELSE IF StemMatch(listing, filename).found THEN StemMatch(listing, filename)
    ELSE SubstringMatch(listing, filename)

(***************************************************************************)
(* The post directory the model draws from: attachment names and markdown  *)
(* items.  A markdown document is a sequence of items, each an image link  *)
(* ![alt](path) or a run of text without image links.                      *)
(***************************************************************************)
PPng == <<"p", ".", "p", "n", "g">>
PJpegUpper == <<"p", ".", "J", "P", "E", "G">>
CMov == <<"c", ".", "m", "o", "v">>
DTxt == <<"d", ".", "t", "x", "t">>

AttachmentNames == {PPng, PJpegUpper, CMov, DTxt}

Img(alt, path) == [kind |-> "img", alt |-> alt, path |-> path]
TextItem == [kind |-> "text", alt |-> "", path |-> <<>>]

MarkdownItems ==
    { Img("a", PPng),
      Img("b", AttachmentsPrefix \o <<"p", ".", "j", "p", "g">>),
      Img("a", CMov),
      Img("a", DTxt),
      Img("a", <<"z", ".", "p", "n", "g">>),
      TextItem }

SeqsUpTo(S, n) == UNION { [1..k -> S] : k \in 0..n }

\* listings without a repeated name: a directory holds a name once
Listings(names, n) ==
    { l \in SeqsUpTo(names, n) : \A i, j \in 1..Len(l) : i # j => l[i] # l[j] }

FileEntries(l) == [i \in 1..Len(l) |-> [name |-> l[i], is_file |-> TRUE]]

\* what a successful transcode reports: (original size, new size)
TranscodeSizes == {<<3, 1>>, <<1, 2>>}

CompressionOf == [p \in TranscodeSizes |-> Compression(p[1], p[2])]

(***************************************************************************)
(* extract_image_references: re.findall over the document, in order.       *)
(* full_match is the text ![alt](path), here the pair of its parts.        *)
(***************************************************************************)
extract_image_references(markdown_content) ==
    LET IsImg(item) == item.kind = "img"
        matches == SelectSeq(markdown_content, IsImg)
    IN  [i \in 1..Len(matches) |->
            [full_match |-> <<matches[i].alt, matches[i].path>>,
             alt |-> matches[i].alt, path |-> matches[i].path]]

\* str.replace(full_match, new_match): every occurrence
Replace(content, full_match, new_match) ==
    [i \in 1..Len(content) |->
        IF content[i].kind = "img" /\ <<content[i].alt, content[i].path>> = full_match
        THEN Img(new_match[1], new_match[2])
        ELSE content[i]]

(***************************************************************************)
(* process_post, the planning loop (one iteration, then the loop).         *)
(***************************************************************************)
EmptyPlan ==
    [files_to_process |-> <<>>, processed_files |-> {}, missing_files |-> <<>>,
     skipped_videos |-> <<>>, unknown_types |-> <<>>]

\* filename = Path(path).name, less a leading 'Attachments/'
ReferencedName(path) ==
    LET filename == PathName(path)
    IN  IF StartsWith(filename, AttachmentsPrefix)
        THEN SubSeq(filename, Len(AttachmentsPrefix) + 1, Len(filename))
        ELSE filename

NewName(filename, idx, norename) ==
    (IF norename THEN Stem(filename) ELSE ImgPrefix \o Format02d(idx)) \o WebpExt

PlanStep(st, listing, idx, ref, norename) ==
    LET filename == ReferencedName(ref.path)
        file_path == find_file_by_basename(listing, filename)
        file_type == get_file_type(file_path.name)
    IN  IF ~file_path.found
        THEN [st EXCEPT !.missing_files = Append(@, filename)]
        ELSE IF file_type = "video"
        THEN [st EXCEPT !.skipped_videos = Append(@, filename)]
        ELSE IF file_type = NoType
        THEN [st EXCEPT !.unknown_types = Append(@, filename)]
        ELSE [st EXCEPT
                !.files_to_process =
                    Append(@, [file_path |-> file_path.name,
                               new_name |-> NewName(filename, idx, norename),
                               idx |-> idx]),
                !.processed_files = @ \cup {file_path.name}]

\* for idx, ref in enumerate(image_refs, start=1)
FirstIndex == 1

RECURSIVE PlanLoop(_, _, _, _)
PlanLoop(refs, listing, n, norename) ==
    IF n = 0 THEN EmptyPlan
    ELSE PlanStep(PlanLoop(refs, listing, n - 1, norename), listing,
                  FirstIndex + n - 1, refs[n], norename)

\* all_files - processed_files
UnusedFiles(listing, processed) ==
    { listing[i].name : i \in { j \in 1..Len(listing) : listing[j].is_file } }
        \ processed

(***************************************************************************)
(* process_post, the rewrite loop over zip(image_refs, files_to_process).  *)
(***************************************************************************)
Min(a, b) == IF a < b THEN a ELSE b

RECURSIVE RewriteLoop(_, _, _, _)
RewriteLoop(content, refs, plan, n) ==
    IF n = 0 THEN content
    ELSE Replace(RewriteLoop(content, refs, plan, n - 1),
                 refs[n].full_match, <<refs[n].alt, plan[n].new_name>>)

Rewritten(content, refs, plan) ==
    RewriteLoop(content, refs, plan, Min(Len(refs), Len(plan)))

\* the dry-run table: source file -> new file, a line per plan entry
PlanTable(plan) ==
    [i \in 1..Len(plan) |-> <<plan[i].file_path, plan[i].new_name>>]

(***************************************************************************)
(* ImageOptimizer.process_image: the result of one transcode.              *)
(***************************************************************************)
FormatAction(file_type) ==
    CASE file_type = "jpeg" -> "JPEG -> WebP"
      [] file_type = "heic" -> "HEIC -> WebP"
      [] file_type = "tiff" -> "TIFF -> WebP"
      [] file_type = "png" -> "PNG -> WebP"
      [] file_type = "webp" -> "WebP optimized"
      [] OTHER -> "-> WebP"

SuccessResult(entry, sizes) ==
    [success |-> TRUE, input |-> entry.file_path, output |-> entry.new_name,
     action |-> FormatAction(get_file_type(entry.file_path)),
     original_size |-> sizes[1], new_size |-> sizes[2],
     compression |-> CompressionOf[sizes]]

\* {'success': False, 'input': ..., 'error': ...}: the fields a failed result
\* lacks are left at fixed values, its error text is not modelled
FailedResult(entry) ==
    [success |-> FALSE, input |-> entry.file_path, output |-> <<>>,
     action |-> "error", original_size |-> 0, new_size |-> 0, compression |-> 0]

\* a file written under a name replaces the file of that name
WriteFile(files, name, src) ==
    { f \in files : f.name # name } \cup {[name |-> name, src |-> src]}

(***************************************************************************)
(* State.                                                                  *)
(***************************************************************************)
VARIABLES
    \* the post directory and the command line
    srcKind, mdKind, attKind, attachments, markdown,
    dry_run, no_rename, hugo_path,
    \* main and process_post
    pc, ret, exitCode, mdRead, image_refs,
    files_to_process, processed_files, missing_files, skipped_videos,
    unknown_types, unused_files,
    results, calls, total_original_size, total_new_size,
    \* what the run leaves behind: the terminal and the file system
    printed, outDirExists, outImages, outMarkdown, hugoImages, hugoMarkdown,
    \* a function under test: its arguments and its result
    arg, res

inputVars == <<srcKind, mdKind, attKind, attachments, markdown, no_rename, hugo_path>>
planVars == <<image_refs, files_to_process, processed_files, missing_files,
              skipped_videos, unknown_types, unused_files>>
execVars == <<results, calls, total_original_size, total_new_size>>
fsVars == <<outDirExists, outImages, outMarkdown, hugoImages, hugoMarkdown>>
fnVars == <<arg, res>>
vars == <<inputVars, dry_run, pc, ret, exitCode, mdRead, planVars, execVars,
          printed, fsVars, fnVars>>

Kinds == {"absent", "file", "dir"}

FreshRun ==
    /\ pc = "start"
    /\ ret = "none"
    /\ exitCode = -1
    /\ mdRead = FALSE
    /\ image_refs = <<>>
    /\ files_to_process = <<>>
    /\ processed_files = {}
    /\ missing_files = <<>>
    /\ skipped_videos = <<>>
    /\ unknown_types = <<>>
    /\ unused_files = {}
    /\ results = <<>>
    /\ calls = <<>>
    /\ total_original_size = 0
    /\ total_new_size = 0

NoFunction == arg = <<>> /\ res = <<>>

\* main is started on a post directory; the output directory does not exist
Init ==
    /\ srcKind \in Kinds
    /\ mdKind \in (IF srcKind = "dir" THEN Kinds ELSE {"absent"})
    /\ attKind \in (IF srcKind = "dir" THEN Kinds ELSE {"absent"})
    /\ markdown \in (IF mdKind = "file" THEN SeqsUpTo(MarkdownItems, MaxRefs)
                     ELSE {<<>>})
    /\ attachments \in (IF attKind = "dir"
                        THEN { FileEntries(l) : l \in Listings(AttachmentNames, MaxAttachments) }
                        ELSE {<<>>})
    /\ dry_run \in BOOLEAN
    /\ no_rename \in BOOLEAN
    /\ hugo_path \in BOOLEAN
    /\ FreshRun
    /\ printed = <<>>
    /\ outDirExists = FALSE
    /\ outImages = {}
    /\ outMarkdown = <<>>
    /\ hugoImages = {}
    /\ hugoMarkdown = <<>>
    /\ NoFunction

(***************************************************************************)
(* validate_source_directory                                               *)
(***************************************************************************)
validate_source_directory ==
    IF srcKind = "absent" THEN FALSE       \* not source_dir.exists()
    ELSE IF srcKind # "dir" THEN FALSE     \* not source_dir.is_dir()
    ELSE IF mdKind = "absent" THEN FALSE   \* find_markdown_file found none
    ELSE IF attKind = "absent" THEN FALSE  \* not attachments_dir.exists()
    ELSE TRUE

\* an exception nothing catches: the interpreter prints it and exits with 1
Raise ==
    /\ pc' = "exited"
    /\ ret' = "raised"
    /\ exitCode' = 1

(***************************************************************************)
(* process_post                                                            *)
(***************************************************************************)
Validate ==
    /\ pc = "start"
    /\ IF validate_source_directory
       THEN pc' = "load" /\ ret' = ret
       ELSE pc' = "returned" /\ ret' = "false"
    /\ UNCHANGED <<inputVars, dry_run, exitCode, mdRead, planVars, execVars,
                   printed, fsVars, fnVars>>

\* open(markdown_file).read() raises when the path found is a directory
Load ==
    /\ pc = "load"
    /\ IF mdKind = "file"
       THEN /\ mdRead' = TRUE
            /\ image_refs' = extract_image_references(markdown)
            /\ pc' = "plan"
            /\ UNCHANGED <<ret, exitCode>>
       ELSE /\ Raise
            /\ UNCHANGED <<mdRead, image_refs>>
    /\ UNCHANGED <<inputVars, dry_run, files_to_process, processed_files,
                   missing_files, skipped_videos, unknown_types, unused_files,
                   execVars, printed, fsVars, fnVars>>

\* the planning loop and the unused files; attachments_dir.iterdir() raises
\* when Attachments is not a directory
Plan ==
    /\ pc = "plan"
    /\ IF attKind = "dir"
       THEN LET st == PlanLoop(image_refs, attachments, Len(image_refs), no_rename)
            IN  /\ files_to_process' = st.files_to_process
                /\ processed_files' = st.processed_files
                /\ missing_files' = st.missing_files
                /\ skipped_videos' = st.skipped_videos
                /\ unknown_types' = st.unknown_types
                /\ unused_files' = UnusedFiles(attachments, st.processed_files)
                /\ pc' = "branch"
                /\ UNCHANGED <<ret, exitCode>>
       ELSE /\ Raise
            /\ UNCHANGED <<files_to_process, processed_files, missing_files,
                           skipped_videos, unknown_types, unused_files>>
    /\ UNCHANGED <<inputVars, dry_run, mdRead, image_refs, execVars, printed,
                   fsVars, fnVars>>

\* variant: the output directory created before the dry-run test
DryRunCreatesOutputDir ==
    /\ pc = "branch"
    /\ dry_run
    /\ outDirExists' = TRUE
    /\ printed' = Append(printed, PlanTable(files_to_process))
    /\ ret' = "true"
    /\ pc' = "returned"
    /\ UNCHANGED <<inputVars, dry_run, exitCode, mdRead, planVars, execVars,
                   outImages, outMarkdown, hugoImages, hugoMarkdown, fnVars>>

\* if dry_run: print the plan and return True
DryRun ==
    /\ pc = "branch"
    /\ dry_run
    /\ printed' = Append(printed, PlanTable(files_to_process))
    /\ ret' = "true"
    /\ pc' = "returned"
    /\ UNCHANGED <<inputVars, dry_run, exitCode, mdRead, planVars, execVars,
                   fsVars, fnVars>>

\* output_dir.mkdir(parents=True, exist_ok=True)
MakeOutputDir ==
    /\ pc = "branch"
    /\ ~dry_run
    /\ outDirExists' = TRUE
    /\ pc' = "exec"
    /\ UNCHANGED <<inputVars, dry_run, ret, exitCode, mdRead, planVars, execVars,
                   printed, outImages, outMarkdown, hugoImages, hugoMarkdown,
                   fnVars>>

\* variant: a failed transcode ends the loop
TranscodeAbortsOnFailure ==
    /\ pc = "exec"
    /\ Len(results) < Len(files_to_process)
    /\ LET entry == files_to_process[Len(results) + 1]
       IN  /\ calls' = Append(calls, <<entry.file_path, entry.new_name>>)
           /\ \/ \E sizes \in TranscodeSizes :
                    /\ results' = Append(results, SuccessResult(entry, sizes))
                    /\ outImages' = WriteFile(outImages, entry.new_name, entry.file_path)
                    /\ total_original_size' = total_original_size + sizes[1]
                    /\ total_new_size' = total_new_size + sizes[2]
                    /\ pc' = pc
              \/ /\ results' = Append(results, FailedResult(entry))
                 /\ pc' = "publish"
                 /\ UNCHANGED <<outImages, total_original_size, total_new_size>>
    /\ UNCHANGED <<inputVars, dry_run, ret, exitCode, mdRead, planVars,
                   printed, outDirExists, outMarkdown, hugoImages, hugoMarkdown,
                   fnVars>>

\* one iteration of the execute loop: process_image either writes the WebP
\* file and reports its sizes, or catches the error and reports a failure
Transcode ==
    /\ pc = "exec"
    /\ Len(results) < Len(files_to_process)
    /\ LET entry == files_to_process[Len(results) + 1]
       IN  /\ calls' = Append(calls, <<entry.file_path, entry.new_name>>)
           /\ \/ \E sizes \in TranscodeSizes :
                    /\ results' = Append(results, SuccessResult(entry, sizes))
                    /\ outImages' = WriteFile(outImages, entry.new_name, entry.file_path)
                    /\ total_original_size' = total_original_size + sizes[1]
                    /\ total_new_size' = total_new_size + sizes[2]
              \/ /\ results' = Append(results, FailedResult(entry))
                 /\ UNCHANGED <<outImages, total_original_size, total_new_size>>
    /\ UNCHANGED <<inputVars, dry_run, pc, ret, exitCode, mdRead, planVars,
                   printed, outDirExists, outMarkdown, hugoImages, hugoMarkdown,
                   fnVars>>

\* the rewrite loop, and the markdown written to the output directory
Rewrite ==
    /\ pc = "exec"
    /\ Len(results) = Len(files_to_process)
    /\ outMarkdown' = <<Rewritten(markdown, image_refs, files_to_process)>>
    /\ pc' = "publish"
    /\ UNCHANGED <<inputVars, dry_run, ret, exitCode, mdRead, planVars, execVars,
                   printed, outDirExists, outImages, hugoImages, hugoMarkdown,
                   fnVars>>

\* the copy to the Hugo blog when a path is given; the statistics are only
\* printed; return True
Publish ==
    /\ pc = "publish"
    /\ IF hugo_path
       THEN /\ hugoMarkdown' = outMarkdown
            /\ hugoImages' =
                 { f \in hugoImages :
                     \A i \in 1..Len(files_to_process) :
                        files_to_process[i].new_name # f.name
                        \/ \A g \in outImages : g.name # f.name }
                 \cup { g \in outImages :
                          \E i \in 1..Len(files_to_process) :
                             files_to_process[i].new_name = g.name }
       ELSE UNCHANGED <<hugoImages, hugoMarkdown>>
    /\ ret' = "true"
    /\ pc' = "returned"
    /\ UNCHANGED <<inputVars, dry_run, exitCode, mdRead, planVars, execVars,
                   printed, outDirExists, outImages, outMarkdown, fnVars>>

(***************************************************************************)
(* main                                                                    *)
(***************************************************************************)
MainExit ==
    /\ pc = "returned"
    /\ exitCode' = (IF ret = "true" THEN 0 ELSE 1)
    /\ pc' = "exited"
    /\ UNCHANGED <<inputVars, dry_run, ret, mdRead, planVars, execVars, printed,
                   fsVars, fnVars>>

\* after a preview, the same command line is run again without --dry-run
RunForReal ==
    /\ pc = "exited"
    /\ dry_run
    /\ exitCode = 0
    /\ dry_run' = FALSE
    /\ pc' = "start"
    /\ ret' = "none"
    /\ exitCode' = -1
    /\ mdRead' = FALSE
    /\ image_refs' = <<>>
    /\ files_to_process' = <<>>
    /\ processed_files' = {}
    /\ missing_files' = <<>>
    /\ skipped_videos' = <<>>
    /\ unknown_types' = <<>>
    /\ unused_files' = {}
    /\ results' = <<>>
    /\ calls' = <<>>
    /\ total_original_size' = 0
    /\ total_new_size' = 0
    /\ UNCHANGED <<inputVars, printed, fsVars, fnVars>>

Next ==
    \/ Validate
    \/ Load
    \/ Plan
    \/ DryRun
    \/ MakeOutputDir
    \/ Transcode
    \/ Rewrite
    \/ Publish
    \/ MainExit
    \/ RunForReal

Spec == Init /\ [][Next]_vars

(***************************************************************************)
(* The pure functions, each applied to arguments drawn from bounded sets.  *)
(***************************************************************************)
IdleRun ==
    /\ srcKind = "absent"
    /\ mdKind = "absent"
    /\ attKind = "absent"
    /\ attachments = <<>>
    /\ markdown = <<>>
    /\ dry_run = FALSE
    /\ no_rename = FALSE
    /\ hugo_path = FALSE
    /\ ret = "none"
    /\ exitCode = -1
    /\ mdRead = FALSE
    /\ image_refs = <<>>
    /\ files_to_process = <<>>
    /\ processed_files = {}
    /\ missing_files = <<>>
    /\ skipped_videos = <<>>
    /\ unknown_types = <<>>
    /\ unused_files = {}
    /\ results = <<>>
    /\ calls = <<>>
    /\ total_original_size = 0
    /\ total_new_size = 0
    /\ printed = <<>>
    /\ outDirExists = FALSE
    /\ outImages = {}
    /\ outMarkdown = <<>>
    /\ hugoImages = {}
    /\ hugoMarkdown = <<>>

runVars == <<inputVars, dry_run, ret, exitCode, mdRead, planVars, execVars,
             printed, fsVars>>

\* find_file_by_basename on a listing and a requested file name
PhotoJpg == <<"p", "h", "o", "t", "o", ".", "j", "p", "g">>
PhotoJpeg == <<"p", "h", "o", "t", "o", ".", "j", "p", "e", "g">>
PhotoJpegJpg == PhotoJpeg \o <<".", "j", "p", "g">>
MyPhotoPng == <<"m", "y">> \o <<"p", "h", "o", "t", "o", ".", "p", "n", "g">>
OtherPng == <<"o", "t", "h", "e", "r", ".", "p", "n", "g">>

ListedNames == {PhotoJpg, PhotoJpeg, PhotoJpegJpg, MyPhotoPng, OtherPng}
RequestedNames == {PhotoJpg, PhotoJpeg, <<"p", "h", "o", "t", "o">>,
                   <<"x", ".", "p", "n", "g">>}

EntryListings ==
    { l \in SeqsUpTo([name : ListedNames, is_file : BOOLEAN], MaxListing) :
        \A i, j \in 1..Len(l) : i # j => l[i].name # l[j].name }

InitResolve ==
    /\ IdleRun
    /\ pc = "call"
    /\ arg \in { <<l, f>> : l \in EntryListings, f \in RequestedNames }
    /\ res = <<>>

Resolve ==
    /\ pc = "call"
    /\ res' = <<find_file_by_basename(arg[1], arg[2])>>
    /\ pc' = "result"
    /\ UNCHANGED <<runVars, arg>>

SpecResolve == InitResolve /\ [][Resolve]_vars

\* convert_to_webp on an image size and a maximum dimension
NotableSizes ==
    {<<3000, 2000, 1500>>, <<49, 49, 1>>, <<98, 49, 2>>, <<2226, 1855, 1200>>}

InitResize ==
    /\ IdleRun
    /\ pc = "call"
    /\ arg \in { <<w, h, m>> : w \in 1..MaxDim, h \in 1..MaxDim, m \in 1..MaxDim }
                \cup NotableSizes
    /\ res = <<>>

Resize ==
    /\ pc = "call"
    /\ res' = <<ResizeTarget(arg[1], arg[2], arg[3])>>
    /\ pc' = "result"
    /\ UNCHANGED <<runVars, arg>>

SpecResize == InitResize /\ [][Resize]_vars

\* process_image's percentage on an original size and a new size
InitCompression ==
    /\ IdleRun
    /\ pc = "call"
    /\ arg \in { <<o, n>> : o \in 0..MaxSize, n \in 0..MaxSize }
    /\ res = <<>>

Compress ==
    /\ pc = "call"
    /\ res' = <<Compression(arg[1], arg[2])>>
    /\ pc' = "result"
    /\ UNCHANGED <<runVars, arg>>

SpecCompression == InitCompression /\ [][Compress]_vars

(***************************************************************************)
(* Properties.                                                             *)
(***************************************************************************)
\* the plan of the current run is built
Planned == pc \in {"branch", "exec", "publish"}
           \/ (pc \in {"returned", "exited"} /\ ret = "true")

NoFileWritten ==
    /\ ~outDirExists
    /\ outImages = {}
    /\ outMarkdown = <<>>
    /\ hugoImages = {}
    /\ hugoMarkdown = <<>>

\* what reference i of the document resolves to
Resolved(i) ==
    find_file_by_basename(attachments, PathName(image_refs[i].path))

Recognized(i) ==
    Resolved(i).found /\ get_file_type(Resolved(i).name) \notin {"video", NoType}

PlanEntriesAt(i) ==
    { k \in 1..Len(files_to_process) : files_to_process[k].idx = i }

\* the position among the image links of the item at pos of the document
RefIndex(pos) == Cardinality({ j \in 1..pos : markdown[j].kind = "img" })

\* C1: the written markdown is the source markdown with every reference that
\* entered the plan replaced by ![its alt](its own new filename) and every
\* other reference, and all text, unchanged.
C1_RewriteOwnReference ==
    outMarkdown # <<>> =>
        outMarkdown[1] =
            [pos \in 1..Len(markdown) |->
                IF markdown[pos].kind = "img" /\ PlanEntriesAt(RefIndex(pos)) # {}
                THEN Img(markdown[pos].alt,
                         files_to_process[CHOOSE k \in PlanEntriesAt(RefIndex(pos)) : TRUE].new_name)
                ELSE markdown[pos]]

\* C2: reference i (counting every reference) that resolves to a recognized
\* non-video file has exactly one plan entry; its output name is img_<i as two
\* digits>.webp, or <stem of the referenced file name>.webp with --no-rename;
\* a reference that does not has no plan entry.
C2_OutputNames ==
    Planned =>
        \A i \in 1..Len(image_refs) :
            LET file == Resolved(i)
                entries == PlanEntriesAt(i)
            IN  IF file.found /\ get_file_type(file.name) \notin {"video", NoType}
                THEN /\ Cardinality(entries) = 1
                     /\ \A k \in entries :
                          /\ files_to_process[k].file_path = file.name
                          /\ files_to_process[k].new_name =
                               IF no_rename
                               THEN Stem(PathName(image_refs[i].path)) \o WebpExt
                               ELSE ImgPrefix
                                    \o <<DigitChars[(i \div 10) + 1],
                                         DigitChars[(i % 10) + 1]>>
                                    \o WebpExt
                ELSE entries = {}

\* a reference excluded from the plan is followed by one that gets img_02.webp
C2_Witness ==
    /\ Planned
    /\ ~no_rename
    /\ Len(image_refs) = 2
    /\ ~Recognized(1)
    /\ Len(files_to_process) = 1
    /\ files_to_process[1].new_name = ImgPrefix \o <<"0", "2">> \o WebpExt

\* C3: a dry run writes nothing, returns true, and prints, line by line, the
\* source and the new name of every plan entry; the run without --dry-run on
\* the same inputs hands exactly the printed pairs to process_image.
C3_DryRunIsPreview ==
    /\ dry_run => NoFileWritten
    /\ (dry_run /\ printed # <<>>) =>
          /\ ret = "true"
          /\ Len(printed[1]) = Len(files_to_process)
          /\ \A k \in 1..Len(files_to_process) :
                printed[1][k] = <<files_to_process[k].file_path,
                                  files_to_process[k].new_name>>
    /\ (~dry_run /\ printed # <<>> /\ pc \in {"publish", "returned", "exited"}) =>
          calls = printed[1]

\* a preview of two entries, then the real run to its exit
C3_Witness ==
    /\ ~dry_run
    /\ printed # <<>>
    /\ Len(printed[1]) = 2
    /\ pc = "exited"
    /\ outMarkdown # <<>>

\* C4: with no source directory, a source that is no directory, no markdown
\* file or no Attachments folder, process_post returns false before reading
\* the markdown or writing a file and main exits non-zero; otherwise main
\* exits zero.
C4_ExitStatus ==
    pc = "exited" =>
        IF srcKind # "dir" \/ mdKind # "file" \/ attKind # "dir"
        THEN ret = "false" /\ ~mdRead /\ NoFileWritten /\ exitCode # 0
        ELSE exitCode = 0

RECURSIVE SumSuccesses(_, _, _)
SumSuccesses(rs, n, field) ==
    IF n = 0 THEN 0
    ELSE SumSuccesses(rs, n - 1, field)
         + (IF rs[n].success THEN rs[n][field] ELSE 0)

\* C5: the execute loop hands every plan entry to process_image once, in plan
\* order, whatever failed before it; a failure is recorded as a failed result;
\* the totals sum the successful results only; process_post returns true and
\* main exits zero.
C5_BatchContinues ==
    outDirExists =>
        /\ Len(calls) = Len(results)
        /\ Len(results) <= Len(files_to_process)
        /\ \A k \in 1..Len(results) :
              /\ calls[k] = <<files_to_process[k].file_path,
                              files_to_process[k].new_name>>
              /\ results[k].input = files_to_process[k].file_path
        /\ total_original_size = SumSuccesses(results, Len(results), "original_size")
        /\ total_new_size = SumSuccesses(results, Len(results), "new_size")
        /\ pc \in {"publish", "returned", "exited"} =>
              Len(results) = Len(files_to_process)
        /\ pc \in {"returned", "exited"} => ret = "true"
        /\ pc = "exited" => exitCode = 0

\* the first of two entries fails and the second is transcoded
C5_Witness ==
    /\ pc = "exited"
    /\ Len(results) = 2
    /\ ~results[1].success
    /\ results[2].success
    /\ total_original_size = results[2].original_size

ExactTier == { i \in 1..Len(arg[1]) : arg[1][i].name = arg[2] }
StemTier ==
    { i \in 1..Len(arg[1]) :
        arg[1][i].is_file /\ Stem(arg[1][i].name) = Stem(arg[2]) }
SubstringTier ==
    { i \in 1..Len(arg[1]) :
        arg[1][i].is_file /\ Contains(Stem(arg[2]), arg[1][i].name) }

InTier(tier) == \E i \in tier : res[1] = Found(arg[1][i])

\* C6: the result is an exact match when there is one; else a file of equal
\* stem when there is one; else a file whose name contains the stem; none only
\* when no tier matches; photo.jpg among only photo.jpeg is photo.jpeg.
C6_TierOrder ==
    pc = "result" =>
        /\ ExactTier # {} => InTier(ExactTier)
        /\ (ExactTier = {} /\ StemTier # {}) => InTier(StemTier)
        /\ (ExactTier = {} /\ StemTier = {} /\ SubstringTier # {}) =>
              InTier(SubstringTier)
        /\ ~res[1].found <=> (ExactTier = {} /\ StemTier = {} /\ SubstringTier = {})
        /\ (arg = <<<<[name |-> PhotoJpeg, is_file |-> TRUE]>>, PhotoJpg>>) =>
              res[1].name = PhotoJpeg

\* no exact match; a file that only contains the stem is listed before the
\* file of equal stem, which is the result
C6_Witness ==
    /\ pc = "result"
    /\ ExactTier = {}
    /\ StemTier # {}
    /\ \E i \in SubstringTier \ StemTier : \A j \in StemTier : i < j
    /\ InTier(StemTier)

\* C7: the unused files are the attachment file names no reference resolves
\* to, and neither they nor the missing names are among the processed files.
C7_UnusedIsUnresolved ==
    Planned =>
        /\ unused_files =
              { attachments[i].name : i \in 1..Len(attachments) }
              \ { Resolved(i).name : i \in { j \in 1..Len(image_refs) : Resolved(j).found } }
        /\ unused_files \cap processed_files = {}
        /\ \A k \in 1..Len(missing_files) : missing_files[k] \notin processed_files

\* C8: the output directory holds one WebP file per successfully transcoded
\* plan entry, and no two plan entries have the same output file name.
C8_OneFilePerEntry ==
    (pc = "exited" /\ outDirExists) =>
        /\ Cardinality(outImages) =
              Cardinality({ k \in 1..Len(results) : results[k].success })
        /\ \A j, k \in 1..Len(files_to_process) :
              j # k => files_to_process[j].new_name # files_to_process[k].new_name

Larger == Max(arg[1], arg[2])
Smaller == Min(arg[1], arg[2])

\* C9 as claimed: an oversized image gets its larger dimension equal to the
\* maximum and its smaller dimension equal to smaller * maximum / larger
\* rounded to the nearest integer; any other image keeps its size.
C9_RoundedToNearest ==
    pc = "result" =>
        IF Larger > arg[3]
        THEN /\ Max(res[1][1], res[1][2]) = arg[3]
             /\ LET d == 2 * Larger * Min(res[1][1], res[1][2])
                         - 2 * Smaller * arg[3]
                IN  d <= Larger /\ 0 - d <= Larger
        ELSE res[1] = <<arg[1], arg[2]>>

\* what the smaller dimension may be: the exact quotient truncated, or one
\* less when the quotient is a whole number
TruncatedQuotient(x) ==
    \/ x = (Smaller * arg[3]) \div Larger
    \/ x = (Smaller * arg[3]) \div Larger - 1 /\ (Smaller * arg[3]) % Larger = 0

\* C9 as amended: the smaller dimension is the double-precision product
\* smaller * (maximum / larger) truncated toward zero: the exact quotient
\* truncated, or one less when the quotient is a whole number that the
\* product falls short of; 3000x2000 with maximum 1500 gives 1500x1000.
C9_TruncatedResize ==
    pc = "result" =>
        /\ IF Larger > arg[3]
           THEN IF arg[1] > arg[2]
                THEN res[1][1] = arg[3] /\ TruncatedQuotient(res[1][2])
                ELSE res[1][2] = arg[3] /\ TruncatedQuotient(res[1][1])
           ELSE res[1] = <<arg[1], arg[2]>>
        /\ arg = <<3000, 2000, 1500>> => res[1] = <<1500, 1000>>

\* an oversized image whose exact smaller dimension has a fraction of a half
\* or more, which is cut off
C9_Witness ==
    /\ pc = "result"
    /\ Larger > arg[3]
    /\ 2 * ((Smaller * arg[3]) % Larger) >= Larger
    /\ Min(res[1][1], res[1][2]) = (Smaller * arg[3]) \div Larger

\* C10 as claimed: the percentage is round((1 - new/original) * 100), and 0
\* for an original size of 0.
C10_RoundedCompression ==
    pc = "result" =>
        res[1] = IF arg[1] > 0
                 THEN FRoundInt(FMulInt(100, FSubFromOne(FDiv(arg[2], arg[1]))))
                 ELSE 0

\* 100 * (original - new) / original truncated toward zero
ExactPercent ==
    LET num == 100 * (arg[1] - arg[2])
    IN  IF num >= 0 THEN num \div arg[1] ELSE 0 - ((0 - num) \div arg[1])

\* C10 as amended: the percentage is the double-precision value
\* (1 - new/original) * 100 truncated toward zero: the exact percentage
\* truncated toward zero, or one nearer to zero when the exact percentage is
\* a whole number that the product falls short of; 0 for an original size of 0.
C10_TruncatedCompression ==
    pc = "result" =>
        IF arg[1] > 0
        THEN \/ res[1] = ExactPercent
             \/ /\ (100 * (arg[1] - arg[2])) % arg[1] = 0
                /\ ExactPercent > 0
                /\ res[1] = ExactPercent - 1
             \/ /\ (100 * (arg[1] - arg[2])) % arg[1] = 0
                /\ ExactPercent < 0
                /\ res[1] = ExactPercent + 1
        ELSE res[1] = 0

\* a saving whose exact percentage has a fraction of a half or more, which is
\* cut off
C10_Witness ==
    /\ pc = "result"
    /\ arg[1] > arg[2]
    /\ 2 * ((100 * (arg[1] - arg[2])) % arg[1]) >= arg[1]
    /\ res[1] = ExactPercent

=============================================================================
